---- MODULE Spec2Model ----
(***************************************************************************)
(* The two notebooks of the repository, each a sequence of code cells run  *)
(* in one Python kernel over the payload the Quandl API returned:          *)
(*   "public"   src/api_data_wrangling_mini_project_public.ipynb           *)
(*   "part_000" src/unnamed/part_000                                        *)
(* Tasks 3..7 of each notebook compute the five statistics.  A cell either *)
(* completes or raises a Python exception; names it bound before the       *)
(* exception stay bound in the kernel.                                      *)
(*                                                                          *)
(* Numbers are small integers; JSON null / Python None is the integer      *)
(* None, outside every value range.  Python lists are sequences, so Python *)
(* index i is position i + 1.  A mean or a median is the exact fraction    *)
(* <<numerator, denominator>> in lowest terms.                              *)
(***************************************************************************)
EXTENDS Integers, Sequences, FiniteSets, TLC

VARIABLES notebook, dataset_data, ns, out, stdout

vars == <<notebook, dataset_data, ns, out, stdout>>

----------------------------------------------------------------------------
(* Bounds of the model *)

(* Most records in a series that varies in Open, in Close or in Traded Volume *)
MaxSeries == 4
(* Most records in a series that varies in High and Low *)
MaxRangeRows == 2
(* Most rows in a payload of rows cut short or without a date *)
MaxShapeRows == 2
(* Most rows in a payload whose columns are exchanged *)
MaxColumnRows == 2
(* Largest open, high, low and traded volume *)
MaxVal == 3
(* Largest close: deltas of +-3 need four values *)
MaxClose == 4
(* Rows of a payload whose cells are run in any order, any number of times *)
MaxKernelRows == 2

(* JSON null / Python None *)
None == -1

Val == 1..MaxVal

Notebooks == {"public", "part_000"}

Cells == 3..7

(* The column names the API returns, in the order it returned them *)
StandardNames ==
    << "Date", "Open", "High", "Low", "Close", "Change", "Traded Volume",
       "Turnover", "Last Price of the Day", "Daily Traded Units",
       "Daily Turnover" >>

NumCols == Len(StandardNames)

----------------------------------------------------------------------------
(* Python built-ins and the statistics module, as the cells use them *)

Range(xs) == {xs[k] : k \in 1..Len(xs)}

PyMax(xs) == CHOOSE m \in Range(xs) : \A x \in Range(xs) : x <= m

PyMin(xs) == CHOOSE m \in Range(xs) : \A x \in Range(xs) : m <= x

PyAbs(x) == IF x < 0 THEN 0 - x ELSE x

RECURSIVE PySum(_)
PySum(xs) == IF xs = <<>> THEN 0 ELSE Head(xs) + PySum(Tail(xs))

(* list.index(x): the Python index of the first element equal to x *)
PyListIndex(xs, x) == (CHOOSE k \in 1..Len(xs) : xs[k] = x /\ \A j \in 1..(k-1) : xs[j] # x) - 1

RECURSIVE Insert(_, _)
Insert(x, xs) ==
    IF xs = <<>> THEN <<x>>
    ELSE IF x <= Head(xs) THEN <<x>> \o xs
    ELSE <<Head(xs)>> \o Insert(x, Tail(xs))

RECURSIVE PySorted(_)
PySorted(xs) == IF xs = <<>> THEN <<>> ELSE Insert(Head(xs), PySorted(Tail(xs)))

RECURSIVE Gcd(_, _)
Gcd(a, b) == IF b = 0 THEN a ELSE Gcd(b, a % b)

(* The exact value n / d, d > 0 *)
Fraction(n, d) ==
    LET g == Gcd(PyAbs(n), d) IN
    IF g = 0 THEN <<0, 1>> ELSE <<n \div g, d \div g>>

(* statistics.mean(data) of a non-empty list of numbers *)
StatisticsMean(xs) == Fraction(PySum(xs), Len(xs))

(* statistics.median(data) of a non-empty list of numbers *)
StatisticsMedian(xs) ==
    LET data == PySorted(xs)
        n == Len(xs)
        i == n \div 2
    IN  IF n % 2 = 1 THEN Fraction(data[i + 1], 1)
        ELSE Fraction(data[i] + data[i + 1], 2)

(* The kind of the first exception a loop raises, "" when none does *)
FirstError(errs) ==
    IF \A k \in 1..Len(errs) : errs[k] = "" THEN ""
    ELSE errs[CHOOSE k \in 1..Len(errs) : errs[k] # "" /\ \A j \in 1..(k-1) : errs[j] = ""]

(* [row[i] for row in rows], i a Python index every row has *)
Column(rows, i) == [k \in 1..Len(rows) |-> rows[k][i + 1]]

NotNone(xs) == SelectSeq(xs, LAMBDA x : x # None)

----------------------------------------------------------------------------
(* The kernel's namespace: the names bound so far and their values *)

EmptyDict == [n \in {} |-> <<>>]

FreshKernel ==
    [ bound |-> {},
      data_2017 |-> <<>>,
      afx_dict |-> EmptyDict,
      highest_open |-> 0,
      lowest_open |-> 0,
      largest_change |-> 0,
      overnight_changes |-> <<>>,
      pos_max_overnight |-> 0,
      neg_max_overnight |-> 0,
      traded_volume |-> <<>>,
      avg_volume |-> <<0, 1>>,
      median_volume |-> <<0, 1>>,
      median_is_none |-> FALSE ]

NoReport == [direction |-> "", amount |-> 0]

(* What running a cell leaves behind *)
Raised(kind, n) == [err |-> kind, ns |-> n, report |-> NoReport]

Completed(n) == [err |-> "", ns |-> n, report |-> NoReport]

Bind(n, name) == [n EXCEPT !.bound = @ \cup {name}]

----------------------------------------------------------------------------
(* Notebook "public", task 3: highest and lowest opening price *)

(* opens = [i[1] for i in data_2017 if i[1] is not None] *)
(* The slip i[0] for i[1]: opens taken from the Date column *)
OpensReadColumn0(data) == NotNone(Column(data, 0))

PublicOpens(data) == NotNone(Column(data, 1))

PublicHighestOpen(opens) == PyMax(opens)

(* The slip max for min in lowest_open *)
LowestOpenTakesMax(opens) == PyMax(opens)

PublicLowestOpen(opens) == PyMin(opens)

PublicTask3(n, dict) ==
    LET data == dict.data
        n1 == [Bind(n, "data_2017") EXCEPT !.data_2017 = data]
    IN  IF \E k \in 1..Len(data) : Len(data[k]) <= 1 THEN Raised("IndexError", n1)
        ELSE LET opens == PublicOpens(data) IN
             IF opens = <<>> THEN Raised("ValueError", n1)
             ELSE Completed([Bind(Bind(n1, "highest_open"), "lowest_open")
                                EXCEPT !.highest_open = PublicHighestOpen(opens),
                                       !.lowest_open = PublicLowestOpen(opens)])

(* Notebook "public", task 4: largest change in any one day *)

(* What i[2] - i[3] raises for the row i *)
PublicDailyChangeError(row) ==
    IF Len(row) <= 3 THEN "IndexError"
    ELSE IF row[3] = None \/ row[4] = None THEN "TypeError"
    ELSE ""

PublicLargestChange(data) == PyMax([k \in 1..Len(data) |-> data[k][3] - data[k][4]])

PublicTask4(n) ==
    IF "data_2017" \notin n.bound THEN Raised("NameError", n)
    ELSE LET data == n.data_2017
             err == FirstError([k \in 1..Len(data) |-> PublicDailyChangeError(data[k])])
         IN  IF err # "" THEN Raised(err, n)
             ELSE IF data = <<>> THEN Raised("ValueError", n)
             ELSE Completed([Bind(n, "largest_change")
                                EXCEPT !.largest_change = PublicLargestChange(data)])

(* Notebook "public", task 5: largest closing price change between two days *)

(* xs[i] for a Python index i, negative indices counting from the end *)
PyGetItem(xs, i) == IF i < 0 THEN xs[Len(xs) + i + 1] ELSE xs[i + 1]

(* [val - closes[key-1] for key, val in enumerate(closes)
      if val is not None and closes[key-1] is not None and key > 0] *)
PublicOvernightChanges(closes) ==
    LET keys == SelectSeq([k \in 1..Len(closes) |-> k - 1],
                          LAMBDA key : /\ PyGetItem(closes, key) # None
                                       /\ PyGetItem(closes, key - 1) # None
                                       /\ key > 0)
    IN  [k \in 1..Len(keys) |-> PyGetItem(closes, keys[k]) - PyGetItem(closes, keys[k] - 1)]

(* The maximum kept to the strictly positive changes, below every change
   when there is none *)
PosMaxOfPositiveChanges(overnight_changes) ==
    LET positive == SelectSeq(overnight_changes, LAMBDA d : d > 0)
    IN  IF positive = <<>> THEN PyMin(overnight_changes) - 1 ELSE PyMax(positive)

(* pos_max_overnight = max(overnight_changes), the same line in both notebooks *)
PosMaxOvernight(overnight_changes) == PyMax(overnight_changes)

(* The if / else that prints the largest overnight change *)
PublicReport(pos_max, neg_max) ==
    IF PyAbs(neg_max) > pos_max
    THEN [direction |-> "decrease", amount |-> PyAbs(neg_max)]
    ELSE [direction |-> "increase", amount |-> pos_max]

PublicTask5(n) ==
    IF "data_2017" \notin n.bound THEN Raised("NameError", n)
    ELSE LET data == n.data_2017 IN
         IF \E k \in 1..Len(data) : Len(data[k]) <= 4 THEN Raised("IndexError", n)
         ELSE LET changes == PublicOvernightChanges(Column(data, 4))
                  n1 == [Bind(n, "overnight_changes") EXCEPT !.overnight_changes = changes]
              IN  IF changes = <<>> THEN Raised("ValueError", n1)
                  ELSE LET pos_max == PosMaxOvernight(changes)
                           neg_max == PyMin(changes)
                       IN  [err |-> "",
                            ns |-> [Bind(Bind(n1, "pos_max_overnight"), "neg_max_overnight")
                                       EXCEPT !.pos_max_overnight = pos_max,
                                              !.neg_max_overnight = neg_max],
                            report |-> PublicReport(pos_max, neg_max)]

(* Notebook "public", task 6: average daily trading volume *)

(* traded_volume = [i[6] for i in data_2017 if i[6] is not None] *)
PublicTradedVolume(data) == NotNone(Column(data, 6))

PublicTask6(n) ==
    IF "data_2017" \notin n.bound THEN Raised("NameError", n)
    ELSE LET data == n.data_2017 IN
         IF \E k \in 1..Len(data) : Len(data[k]) <= 6 THEN Raised("IndexError", n)
         ELSE LET volume == PublicTradedVolume(data)
                  n1 == [Bind(n, "traded_volume") EXCEPT !.traded_volume = volume]
              IN  IF volume = <<>> THEN Raised("StatisticsError", n1)
                  ELSE Completed([Bind(n1, "avg_volume")
                                     EXCEPT !.avg_volume = StatisticsMean(volume)])

(* Notebook "public", task 7: median traded volume *)

PublicTask7(n) ==
    IF "traded_volume" \notin n.bound THEN Raised("NameError", n)
    ELSE IF n.traded_volume = <<>> THEN Raised("StatisticsError", n)
    ELSE Completed([Bind(n, "median_volume")
                       EXCEPT !.median_volume = StatisticsMedian(n.traded_volume),
                              !.median_is_none = FALSE])

----------------------------------------------------------------------------
(* Notebook "part_000", task 3: the column dictionary, then the opens *)

(* The names the loop "for name in names" gives a column before a row[iname]
   raises IndexError: iname = names.index(name), and the loop stops at the
   first name whose index some row does not have. *)
Part000LoadedNames(names, data) ==
    LET failing == {q \in 1..Len(names) :
                       \E k \in 1..Len(data) : Len(data[k]) <= PyListIndex(names, names[q])}
    IN  {names[q] : q \in {p \in 1..Len(names) : \A f \in failing : p < f}}

(* afx_dict[name] = [row[names.index(name)] for row in data] *)
Part000Dict(names, data) ==
    [name \in Part000LoadedNames(names, data) |->
        Column(data, PyListIndex(names, name))]

Part000Opens(afx) == NotNone(afx["Open"])

Part000HighestOpen(opens) == PyMax(opens)

Part000LowestOpen(opens) == PyMin(opens)

Part000Task3(n, dict) ==
    LET names == dict.column_names
        afx == Part000Dict(names, dict.data)
        n1 == [Bind(n, "afx_dict") EXCEPT !.afx_dict = afx]
    IN  IF DOMAIN afx # Range(names) THEN Raised("IndexError", n1)
        ELSE IF "Open" \notin DOMAIN afx THEN Raised("KeyError", n1)
        ELSE LET opens == Part000Opens(afx) IN
             IF opens = <<>> THEN Raised("ValueError", n1)
             ELSE Completed([Bind(Bind(n1, "highest_open"), "lowest_open")
                                EXCEPT !.highest_open = Part000HighestOpen(opens),
                                       !.lowest_open = Part000LowestOpen(opens)])

(* Notebook "part_000", task 4: largest change in any one day *)

(* daily_changes = [a - b for a, b in zip(afx_dict['High'], afx_dict['Low'])] *)
Part000DailyChangeError(a, b) == IF a = None \/ b = None THEN "TypeError" ELSE ""

Part000DailyChanges(high, low) == [k \in 1..Len(high) |-> high[k] - low[k]]

Part000TaskNeeds(n, names) ==
    IF "afx_dict" \notin n.bound THEN "NameError"
    ELSE IF \E name \in names : name \notin DOMAIN n.afx_dict THEN "KeyError"
    ELSE ""

Part000Task4(n) ==
    LET need == Part000TaskNeeds(n, {"High", "Low"}) IN
    IF need # "" THEN Raised(need, n)
    ELSE LET high == n.afx_dict["High"]
             low == n.afx_dict["Low"]
             err == FirstError([k \in 1..Len(high) |-> Part000DailyChangeError(high[k], low[k])])
         IN  IF err # "" THEN Raised(err, n)
             ELSE IF high = <<>> THEN Raised("ValueError", n)
             ELSE Completed([Bind(n, "largest_change")
                                EXCEPT !.largest_change = PyMax(Part000DailyChanges(high, low))])

(* Notebook "part_000", task 5: largest closing price change between two days *)

(* xs[1:] *)
PySliceFrom1(xs) == IF xs = <<>> THEN <<>> ELSE Tail(xs)

(* The close that "item" is subtracted from: Close[Close.index(item) - 1] *)
Part000Previous(Close, item) == PyGetItem(Close, PyListIndex(Close, item) - 1)

(* What item - Close[Close.index(item) - 1] raises for the item at position k *)
Part000OvernightError(Close, k) ==
    IF Close[k] = None \/ Part000Previous(Close, Close[k]) = None THEN "TypeError" ELSE ""

(* overnight_changes as the loop has appended to it when it ends or raises *)
Part000OvernightChanges(Close) ==
    LET items == [k \in 1..Len(PySliceFrom1(Close)) |-> k + 1]
        good == {k \in 1..Len(items) :
                    \A j \in 1..k : Part000OvernightError(Close, items[j]) = ""}
    IN  [k \in 1..Cardinality(good) |->
            Close[items[k]] - Part000Previous(Close, Close[items[k]])]

Part000Report(pos_max, neg_max) ==
    IF PyAbs(neg_max) > pos_max
    THEN [direction |-> "decrease", amount |-> neg_max]
    ELSE [direction |-> "increase", amount |-> PyAbs(pos_max)]

Part000Task5(n) ==
    LET need == Part000TaskNeeds(n, {"Close"}) IN
    IF need # "" THEN Raised(need, [Bind(n, "overnight_changes") EXCEPT !.overnight_changes = <<>>])
    ELSE LET Close == n.afx_dict["Close"]
             changes == Part000OvernightChanges(Close)
             err == FirstError([k \in 1..Len(PySliceFrom1(Close)) |->
                                   Part000OvernightError(Close, k + 1)])
             n1 == [Bind(n, "overnight_changes") EXCEPT !.overnight_changes = changes]
         IN  IF err # "" THEN Raised(err, n1)
             ELSE IF changes = <<>> THEN Raised("ValueError", n1)
             ELSE LET pos_max == PosMaxOvernight(changes)
                      neg_max == PyMin(changes)
                  IN  [err |-> "",
                       ns |-> [Bind(Bind(n1, "pos_max_overnight"), "neg_max_overnight")
                                  EXCEPT !.pos_max_overnight = pos_max,
                                         !.neg_max_overnight = neg_max],
                       report |-> Part000Report(pos_max, neg_max)]

(* Notebook "part_000", task 6: average daily trading volume *)

(* statistics.mean over the whole column: StatisticsError when it is empty,
   TypeError when it holds a None *)
Part000Task6(n) ==
    LET need == Part000TaskNeeds(n, {"Traded Volume"}) IN
    IF need # "" THEN Raised(need, n)
    ELSE LET volume == n.afx_dict["Traded Volume"] IN
         IF volume = <<>> THEN Raised("StatisticsError", n)
         ELSE IF \E k \in 1..Len(volume) : volume[k] = None THEN Raised("TypeError", n)
         ELSE Completed([Bind(n, "avg_volume") EXCEPT !.avg_volume = StatisticsMean(volume)])

(* Notebook "part_000", task 7: median traded volume *)

(* sorted() compares neighbours, so a None among two or more items raises *)
Part000SortedError(volume) ==
    IF Len(volume) >= 2 /\ \E k \in 1..Len(volume) : volume[k] = None
    THEN "TypeError" ELSE ""

(* The slip of leaving sorted() out *)
TradeVolNotSorted(volume) == volume

Part000SortedTradeVol(volume) == PySorted(volume)

(* median_ref % 2 == 0: median_index_1 = median_ref / 2 - 1 is a float, and
   a list index that is a float raises TypeError *)
Part000EvenBranchError(median_ref) == IF median_ref % 2 = 0 THEN "TypeError" ELSE ""

Part000Task7(n) ==
    LET need == Part000TaskNeeds(n, {"Traded Volume"}) IN
    IF need # "" THEN Raised(need, n)
    ELSE LET volume == n.afx_dict["Traded Volume"]
             median_ref == Len(volume)
         IN  IF Part000SortedError(volume) # "" THEN Raised("TypeError", n)
             ELSE IF Part000EvenBranchError(median_ref) # "" THEN Raised("TypeError", n)
             ELSE LET m == Part000SortedTradeVol(volume)[(median_ref \div 2) + 1]
                      n1 == [Bind(n, "median_volume")
                                EXCEPT !.median_volume = IF m = None THEN <<0, 1>> ELSE Fraction(m, 1),
                                       !.median_is_none = (m = None)]
                  IN  IF m = None THEN Raised("TypeError", n1) ELSE Completed(n1)

----------------------------------------------------------------------------
(* The payloads: dataset_data = [column_names |-> ..., data |-> rows] *)

(* One row of the API's data, the columns in the standard order *)
Row(date, open, high, low, close, volume) ==
    <<date, open, high, low, close, None, volume, 1, None, None, None>>

OrNone(S) == S \cup {None}

SeqsUpTo(S, n) == UNION {[1..m -> S] : m \in 0..n}

OpenRows == {Row(1, o, 2, 1, 1, 1) : o \in OrNone(Val)}

RangeRows ==
    {Row(1, 1, hl[1], hl[2], 1, 1) :
        hl \in {p \in OrNone(Val) \X OrNone(Val) :
                   p[1] = None \/ p[2] = None \/ p[1] >= p[2]}}

CloseRows == {Row(1, 1, 2, 1, c, 1) : c \in OrNone(1..MaxClose)}

VolumeRows == {Row(1, 1, 2, 1, 1, v) : v \in OrNone(Val)}

(* Rows cut short, and rows without a date *)
ShapeRows ==
    {SubSeq(Row(d, 2, 3, 1, 2, 3), 1, len) : d \in OrNone({1}), len \in 0..NumCols}

Series ==
    SeqsUpTo(OpenRows, MaxSeries) \cup SeqsUpTo(RangeRows, MaxRangeRows)
        \cup SeqsUpTo(CloseRows, MaxSeries) \cup SeqsUpTo(VolumeRows, MaxSeries)

NotRunYet == [c \in Cells |-> "NotRun"]

InitWith(payloads) ==
    /\ notebook \in Notebooks
    /\ dataset_data \in [column_names : {StandardNames}, data : payloads]
    /\ ns = FreshKernel
    /\ out = NotRunYet
    /\ stdout = NoReport

Init == InitWith(Series)

InitLoader == InitWith(SeqsUpTo(ShapeRows, MaxShapeRows))

InitColumns == InitWith({rows \in Series : Len(rows) <= MaxColumnRows})

InitKernel == InitWith({rows \in Series : Len(rows) <= MaxKernelRows})

----------------------------------------------------------------------------
(* Running a cell *)

Run(c, result) ==
    /\ ns' = result.ns
    /\ out' = [out EXCEPT ![c] = IF result.err = "" THEN "ok" ELSE result.err]
    /\ stdout' = IF c = 5 THEN result.report ELSE stdout
    /\ UNCHANGED <<notebook, dataset_data>>

(* "Run All" order: cell c runs when exactly the cells before it have run;
   an exception in one cell does not keep the user from running the next *)
InOrder(c) == \A d \in Cells : (d < c) <=> (out[d] # "NotRun")

PublicCell3 == notebook = "public" /\ Run(3, PublicTask3(ns, dataset_data))
PublicCell4 == notebook = "public" /\ Run(4, PublicTask4(ns))
PublicCell5 == notebook = "public" /\ Run(5, PublicTask5(ns))
PublicCell6 == notebook = "public" /\ Run(6, PublicTask6(ns))
PublicCell7 == notebook = "public" /\ Run(7, PublicTask7(ns))

Part000Cell3 == notebook = "part_000" /\ Run(3, Part000Task3(ns, dataset_data))
Part000Cell4 == notebook = "part_000" /\ Run(4, Part000Task4(ns))
Part000Cell5 == notebook = "part_000" /\ Run(5, Part000Task5(ns))
Part000Cell6 == notebook = "part_000" /\ Run(6, Part000Task6(ns))
Part000Cell7 == notebook = "part_000" /\ Run(7, Part000Task7(ns))

RunAll ==
    \/ InOrder(3) /\ PublicCell3
    \/ InOrder(4) /\ PublicCell4
    \/ InOrder(5) /\ PublicCell5
    \/ InOrder(6) /\ PublicCell6
    \/ InOrder(7) /\ PublicCell7
    \/ InOrder(3) /\ Part000Cell3
    \/ InOrder(4) /\ Part000Cell4
    \/ InOrder(5) /\ Part000Cell5
    \/ InOrder(6) /\ Part000Cell6
    \/ InOrder(7) /\ Part000Cell7

(* A kernel session: the user runs whichever cell they choose, again if they
   choose, whatever has or has not run before *)
RunAny ==
    \/ PublicCell3
    \/ PublicCell4
    \/ PublicCell5
    \/ PublicCell6
    \/ PublicCell7
    \/ Part000Cell3
    \/ Part000Cell4
    \/ Part000Cell5
    \/ Part000Cell6
    \/ Part000Cell7

(* The API answers before any cell of the analysis runs; what it answers is
   the environment's choice.  The three steps below change the answer. *)
Fetched == out = NotRunYet

Swap(xs, i, j) == [xs EXCEPT ![i] = xs[j], ![j] = xs[i]]

(* The same records in another order *)
ReorderRows ==
    /\ Fetched
    /\ \E i \in 1..(Len(dataset_data.data) - 1) :
          dataset_data' = [dataset_data EXCEPT !.data = Swap(@, i, i + 1)]
    /\ UNCHANGED <<notebook, ns, out, stdout>>

(* The same records, two columns exchanged in column_names and in every row *)
SwapColumns ==
    /\ Fetched
    /\ dataset_data.column_names = StandardNames
    /\ \E i \in 1..NumCols, j \in 1..NumCols :
          /\ i < j
          /\ dataset_data' =
                [column_names |-> Swap(dataset_data.column_names, i, j),
                 data |-> [k \in 1..Len(dataset_data.data) |->
                              Swap(dataset_data.data[k], i, j)]]
    /\ UNCHANGED <<notebook, ns, out, stdout>>

(* The same records, one of them without its date *)
DropDate ==
    /\ Fetched
    /\ \E k \in 1..Len(dataset_data.data) :
          /\ Len(dataset_data.data[k]) >= 1
          /\ dataset_data.data[k][1] # None
          /\ dataset_data' = [dataset_data EXCEPT !.data[k][1] = None]
    /\ UNCHANGED <<notebook, ns, out, stdout>>

Next == RunAll \/ ReorderRows

NextLoader == RunAll \/ DropDate

NextColumns == RunAll \/ SwapColumns

NextKernel == RunAny

Spec == Init /\ [][Next]_vars

SpecLoader == InitLoader /\ [][NextLoader]_vars

SpecColumns == InitColumns /\ [][NextColumns]_vars

SpecKernel == InitKernel /\ [][NextKernel]_vars

----------------------------------------------------------------------------
(* The five statistics of a payload, each computed in a fresh kernel by the
   cells it needs: every cell reads the payload that cell 3 binds, and cell 7
   of the public notebook reads the traded_volume of cell 6 *)

Outcome(result) == IF result.err = "" THEN "ok" ELSE result.err

OpenExtrema(nb, dict) ==
    IF nb = "public" THEN PublicTask3(FreshKernel, dict) ELSE Part000Task3(FreshKernel, dict)

MaxIntradayChange(nb, dict) ==
    IF nb = "public" THEN PublicTask4(OpenExtrema(nb, dict).ns)
    ELSE Part000Task4(OpenExtrema(nb, dict).ns)

MaxAdjacentCloseChange(nb, dict) ==
    IF nb = "public" THEN PublicTask5(OpenExtrema(nb, dict).ns)
    ELSE Part000Task5(OpenExtrema(nb, dict).ns)

MeanVolume(nb, dict) ==
    IF nb = "public" THEN PublicTask6(OpenExtrema(nb, dict).ns)
    ELSE Part000Task6(OpenExtrema(nb, dict).ns)

MedianVolume(nb, dict) ==
    IF nb = "public" THEN PublicTask7(MeanVolume(nb, dict).ns)
    ELSE Part000Task7(MeanVolume(nb, dict).ns)

(* The results of the statistics that do not read the closes *)
OrderFree(nb, dict) ==
    LET r3 == OpenExtrema(nb, dict)
        r4 == MaxIntradayChange(nb, dict)
        r6 == MeanVolume(nb, dict)
        r7 == MedianVolume(nb, dict)
    IN  [ out |-> (3 :> Outcome(r3)) @@ (4 :> Outcome(r4)) @@ (6 :> Outcome(r6))
                     @@ (7 :> Outcome(r7)),
          highest_open |-> r3.ns.highest_open,
          lowest_open |-> r3.ns.lowest_open,
          largest_change |-> r4.ns.largest_change,
          avg_volume |-> r6.ns.avg_volume,
          median_volume |-> r7.ns.median_volume,
          median_is_none |-> r7.ns.median_is_none ]

(* The results of all five *)
Statistics(nb, dict) ==
    [ order_free |-> OrderFree(nb, dict),
      out5 |-> Outcome(MaxAdjacentCloseChange(nb, dict)),
      report |-> MaxAdjacentCloseChange(nb, dict).report ]

(* Once the last cell has run in notebook order, the kernel holds these
   results and the cells have ended as these did *)
KernelHoldsStatistics ==
    out[7] # "NotRun" =>
        LET st == Statistics(notebook, dataset_data) IN
        /\ \A c \in {3, 4, 6, 7} : st.order_free.out[c] = out[c]
        /\ st.out5 = out[5]
        /\ st.report = stdout
        /\ st.order_free.highest_open = ns.highest_open
        /\ st.order_free.lowest_open = ns.lowest_open
        /\ st.order_free.largest_change = ns.largest_change
        /\ st.order_free.avg_volume = ns.avg_volume
        /\ st.order_free.median_volume = ns.median_volume
        /\ st.order_free.median_is_none = ns.median_is_none

----------------------------------------------------------------------------
(* The record series as the specification sees it: fields by column name *)

Records == dataset_data.data

Position(name) ==
    CHOOSE p \in 1..Len(dataset_data.column_names) : dataset_data.column_names[p] = name

Has(row, name) == Len(row) >= Position(name) /\ row[Position(name)] # None

Field(row, name) == row[Position(name)]

Ran(c) == out[c] # "NotRun"

(* The values of one field, in series order, nulls left out *)
Values(name) ==
    LET idx == SelectSeq([k \in 1..Len(Records) |-> k], LAMBDA k : Has(Records[k], name))
    IN  [k \in 1..Len(idx) |-> Field(Records[idx[k]], name)]

IntradayChanges ==
    {Field(Records[k], "High") - Field(Records[k], "Low") :
        k \in {j \in 1..Len(Records) : Has(Records[j], "High") /\ Has(Records[j], "Low")}}

(* close[i] - close[i-1] for the adjacent positions whose closes are both present *)
AdjacentPairs ==
    {i \in 2..Len(Records) : Has(Records[i], "Close") /\ Has(Records[i - 1], "Close")}

AdjacentDeltas ==
    {Field(Records[i], "Close") - Field(Records[i - 1], "Close") : i \in AdjacentPairs}

Closes == [k \in 1..Len(Records) |-> Field(Records[k], "Close")]

Volumes == [k \in 1..Len(Records) |-> Field(Records[k], "Traded Volume")]

IsMax(m, S) == m \in S /\ \A x \in S : x <= m

IsMin(m, S) == m \in S /\ \A x \in S : m <= x

(* The fraction f, in lowest terms or not, is the value n / d *)
IsValue(f, n, d) == f[2] > 0 /\ f[1] * d = n * f[2]

----------------------------------------------------------------------------
(* C1: maxIntradayChange.  Whenever some record has both high and low, the
   largest-change cell completes and its result is the maximum of high - low
   over exactly the records that have both; a record with a null high or low
   neither contributes nor makes the cell fail. *)
C1_MaxIntradayChange ==
    (Ran(4) /\ IntradayChanges # {}) =>
        /\ out[4] = "ok"
        /\ IsMax(ns.largest_change, IntradayChanges)

(* C2: direction policy of maxAdjacentCloseChange.  The report is a decrease
   of abs(neg_max) exactly when abs(neg_max) > pos_max, otherwise an increase
   of pos_max; the amount of a decrease is never negative.  Closes 2, 4, 2
   (deltas +2, -2) give an increase of 2; closes 2, 4, 1 (deltas +2, -3)
   give a decrease of 3. *)
C2_DirectionPolicy ==
    /\ out[5] = "ok" =>
          /\ stdout = IF PyAbs(ns.neg_max_overnight) > ns.pos_max_overnight
                      THEN [direction |-> "decrease", amount |-> PyAbs(ns.neg_max_overnight)]
                      ELSE [direction |-> "increase", amount |-> ns.pos_max_overnight]
          /\ stdout.amount >= 0
    /\ (Ran(5) /\ Closes = <<2, 4, 2>>) => stdout = [direction |-> "increase", amount |-> 2]
    /\ (Ran(5) /\ Closes = <<2, 4, 1>>) => stdout = [direction |-> "decrease", amount |-> 3]

(* C3: adjacency is positional.  The deltas the overnight cell considers are
   exactly close[i] - close[i-1] for the adjacent positions with both closes
   present: no wrap-around from the first record to the last, no delta across
   a null, each occurrence of a repeated close paired with its own
   predecessor; a null close only removes its pairs. *)
C3_PositionalAdjacency ==
    Ran(5) =>
        /\ "overnight_changes" \in ns.bound
        /\ Range(ns.overnight_changes) = AdjacentDeltas
        /\ Len(ns.overnight_changes) = Cardinality(AdjacentPairs)
        /\ out[5] = IF AdjacentPairs = {} THEN "ValueError" ELSE "ok"

(* C4: meanVolume.  Whenever some record has a traded volume, the mean cell
   completes with the sum of the non-null volumes over their count; volumes
   1, null, 3 give 2. *)
C4_MeanVolume ==
    /\ (Ran(6) /\ Values("Traded Volume") # <<>>) =>
          /\ out[6] = "ok"
          /\ IsValue(ns.avg_volume, PySum(Values("Traded Volume")), Len(Values("Traded Volume")))
    /\ (Ran(6) /\ Volumes = <<1, None, 3>>) => (out[6] = "ok" /\ ns.avg_volume = <<2, 1>>)

(* C5: medianVolume.  Over the non-null volumes sorted ascending the median
   cell yields the middle one when their count is odd and the average of the
   two middle ones when it is even; the even case yields a value.  Volumes
   1, 2, 3 give 2; volumes 1, 2, 3, 4 give 5/2. *)
C5_MedianVolume ==
    /\ (Ran(7) /\ Values("Traded Volume") # <<>>) =>
          LET sorted == PySorted(Values("Traded Volume"))
              count == Len(sorted)
          IN  /\ out[7] = "ok"
              /\ count % 2 = 1 => IsValue(ns.median_volume, sorted[(count + 1) \div 2], 1)
              /\ count % 2 = 0 =>
                    IsValue(ns.median_volume,
                            sorted[count \div 2] + sorted[(count \div 2) + 1], 2)
    /\ (Ran(7) /\ Volumes = <<1, 2, 3>>) => (out[7] = "ok" /\ ns.median_volume = <<2, 1>>)
    /\ (Ran(7) /\ Volumes = <<1, 2, 3, 4>>) => (out[7] = "ok" /\ ns.median_volume = <<5, 2>>)

(* The exceptions Python raises for a reduction over no values: ValueError
   from max() and min(), StatisticsError from statistics.mean and median *)
EmptySeries == {"ValueError", "StatisticsError"}

(* C6: EmptySeries.  Each of the five statistics, run on a series that leaves
   it no usable value, ends in the empty-series error and binds no result. *)
C6_EmptySeries ==
    /\ (Ran(3) /\ Values("Open") = <<>>) =>
          (out[3] \in EmptySeries /\ {"highest_open", "lowest_open"} \cap ns.bound = {})
    /\ (Ran(4) /\ IntradayChanges = {}) =>
          (out[4] \in EmptySeries /\ "largest_change" \notin ns.bound)
    /\ (Ran(5) /\ AdjacentPairs = {}) =>
          (out[5] \in EmptySeries /\ "pos_max_overnight" \notin ns.bound /\ stdout = NoReport)
    /\ (Ran(6) /\ Values("Traded Volume") = <<>>) =>
          (out[6] \in EmptySeries /\ "avg_volume" \notin ns.bound)
    /\ (Ran(7) /\ Values("Traded Volume") = <<>>) =>
          (out[7] \in EmptySeries /\ "median_volume" \notin ns.bound)

----------------------------------------------------------------------------
(* The columns each statistic reads *)
Reads(c) ==
    CASE c = 3 -> {"Open"}
      [] c = 4 -> {"High", "Low"}
      [] c = 5 -> {"Close"}
      [] c = 6 -> {"Traded Volume"}
      [] c = 7 -> {"Traded Volume"}

Results(c) ==
    CASE c = 3 -> {"highest_open", "lowest_open"}
      [] c = 4 -> {"largest_change"}
      [] c = 5 -> {"pos_max_overnight", "neg_max_overnight"}
      [] c = 6 -> {"avg_volume"}
      [] c = 7 -> {"median_volume"}

TooShortFor(row, c) == \E name \in Reads(c) : Len(row) < Position(name)

Malformed(row) ==
    \/ Len(row) < Len(dataset_data.column_names)
    \/ row[Position("Date")] = None

(* C7 as claimed: a payload with a row shorter than column_names, or with a
   row whose date is null, is rejected when it is loaded and no statistic is
   computed from it. *)
C7_MalformedRecordRejected ==
    (\E k \in 1..Len(Records) : Malformed(Records[k])) =>
        \A c \in Cells : out[c] # "ok"

(* C7 as the notebooks behave: rows are not validated.  A statistic is
   computed only from rows that all hold the columns it reads, and a row too
   short for one of them makes the cell raise without binding its result;
   a row without a date is accepted, and dropping a date changes no statistic
   and no error outcome. *)
C7_RowsNotValidated ==
    /\ [](\A c \in Cells :
            /\ out[c] = "ok" => \A k \in 1..Len(Records) : ~TooShortFor(Records[k], c)
            /\ (Ran(c) /\ \E k \in 1..Len(Records) : TooShortFor(Records[k], c)) =>
                  (out[c] # "ok" /\ Results(c) \cap ns.bound = {}))
    /\ [][DropDate => Statistics(notebook, dataset_data') = Statistics(notebook, dataset_data)]_vars

(* A row without a date and a row of five fields: the opening prices are
   computed, the mean volume raises IndexError *)
C7_Witness ==
    /\ notebook = "public"
    /\ \E k \in 1..Len(Records) : Len(Records[k]) = NumCols /\ Records[k][1] = None
    /\ \E k \in 1..Len(Records) : Len(Records[k]) = 5
    /\ out[3] = "ok" /\ "highest_open" \in ns.bound
    /\ out[6] = "IndexError"

(* C8: fields are resolved by column name.  Exchanging two columns in
   column_names and in every row leaves all five statistics unchanged. *)
C8_ResolvedByName ==
    [][SwapColumns => Statistics(notebook, dataset_data') = Statistics(notebook, dataset_data)]_vars

(* C9: order-independence.  Exchanging two neighbouring records, and so any
   permutation of the series, leaves openExtrema, maxIntradayChange,
   meanVolume and medianVolume unchanged, the value or the error outcome. *)
C9_OrderIndependence ==
    [][ReorderRows =>
          OrderFree(notebook, dataset_data') = OrderFree(notebook, dataset_data)]_vars

(* The volumes 3, 1, 2, neither ascending nor descending, with their median *)
C9_Witness ==
    /\ notebook = "part_000"
    /\ Volumes = <<3, 1, 2>>
    /\ out[3] = "ok" /\ out[4] = "ok" /\ out[6] = "ok" /\ out[7] = "ok"
    /\ ns.median_volume = <<2, 1>>

(* C10: openExtrema.  Whenever some record has an open, the cell completes;
   the lowest and the highest open it binds are opens of the series, the
   lowest is <= and the highest is >= every non-null open, so lowest <=
   highest; null opens are ignored, and equal opens give lowest = highest. *)
C10_OpenExtrema ==
    (Ran(3) /\ Values("Open") # <<>>) =>
        LET opens == Range(Values("Open")) IN
        /\ out[3] = "ok"
        /\ {"highest_open", "lowest_open"} \subseteq ns.bound
        /\ IsMin(ns.lowest_open, opens)
        /\ IsMax(ns.highest_open, opens)
        /\ ns.lowest_open <= ns.highest_open
        /\ Cardinality(opens) = 1 => ns.lowest_open = ns.highest_open

(* A series with a null open and two different opens *)
C10_Witness ==
    /\ out[3] = "ok"
    /\ \E k \in 1..Len(Records) : Field(Records[k], "Open") = None
    /\ ns.lowest_open < ns.highest_open

----------------------------------------------------------------------------
(* The statistic cell c computes, as a function of the series alone *)
StatisticOf(c) ==
    CASE c = 3 -> OpenExtrema(notebook, dataset_data)
      [] c = 4 -> MaxIntradayChange(notebook, dataset_data)
      [] c = 5 -> MaxAdjacentCloseChange(notebook, dataset_data)
      [] c = 6 -> MeanVolume(notebook, dataset_data)
      [] c = 7 -> MedianVolume(notebook, dataset_data)

(* The kernel holds for cell c what the statistic has for the series: the
   same outcome, the same results bound to the same values, the same report *)
HoldsStatistic(c) ==
    LET st == StatisticOf(c) IN
    /\ out[c] = Outcome(st)
    /\ \A name \in Results(c) :
          /\ name \in ns.bound <=> name \in st.ns.bound
          /\ ns[name] = st.ns[name]
    /\ c = 5 => stdout = st.report

(* C11: the statistics are pure and mutually independent.  No cell changes
   the record series, and whichever cells have run before it, in whatever
   order, a cell that has run holds the result its statistic has for the
   series; in particular the median cell does so without the mean cell. *)
C11_PureAndIndependent ==
    /\ [][RunAny => dataset_data' = dataset_data]_vars
    /\ [](\A c \in Cells : Ran(c) => HoldsStatistic(c))

----------------------------------------------------------------------------
(* The deltas the overnight cell has computed *)
OvernightChanges == Range(ns.overnight_changes)

(* C12 as claimed: pos_max is the maximum over the strictly positive deltas
   only; when a delta exists but none is strictly positive the report is a
   decrease of abs(neg_max), and closes that are all equal, such as 2, 2,
   are reported as a decrease of 0. *)
C12_PosMaxDefault ==
    /\ out[5] = "ok" =>
          LET positive == {d \in OvernightChanges : d > 0} IN
          /\ positive # {} => IsMax(ns.pos_max_overnight, positive)
          /\ positive = {} =>
                /\ \A d \in OvernightChanges : ns.pos_max_overnight < d
                /\ stdout = [direction |-> "decrease",
                             amount |-> PyAbs(ns.neg_max_overnight)]
    /\ (Ran(5) /\ Closes = <<2, 2>>) => stdout = [direction |-> "decrease", amount |-> 0]

(* C12 as the notebooks behave: pos_max is the maximum over all the deltas,
   positive or not, and has no default (the cell completes only when a delta
   exists).  When no delta is strictly positive, the report is a decrease by
   neg_max if some delta is negative and an increase of 0 if every delta is
   zero; closes 2, 2 are reported as an increase of 0. *)
C12_PosMaxOverAllDeltas ==
    /\ out[5] = "ok" =>
          /\ OvernightChanges # {}
          /\ IsMax(ns.pos_max_overnight, OvernightChanges)
          /\ IsMin(ns.neg_max_overnight, OvernightChanges)
          /\ (\A d \in OvernightChanges : d <= 0) =>
                IF \E d \in OvernightChanges : d < 0
                THEN /\ stdout.direction = "decrease"
                     /\ PyAbs(stdout.amount) = PyAbs(ns.neg_max_overnight)
                ELSE stdout = [direction |-> "increase", amount |-> 0]
    /\ (Ran(5) /\ Closes = <<2, 2>>) => stdout = [direction |-> "increase", amount |-> 0]

(* Closes 3, 3, 1: a zero delta and a negative one, none positive; pos_max
   is the zero delta and the report a decrease *)
C12_Witness ==
    /\ notebook = "public"
    /\ Closes = <<3, 3, 1>>
    /\ out[5] = "ok"
    /\ ns.pos_max_overnight = 0
    /\ ns.neg_max_overnight = 0 - 2
    /\ stdout = [direction |-> "decrease", amount |-> 2]

====
